---- MODULE Spec2Model ----
(***************************************************************************)
(* Model of the library-recommendation-system front end:                   *)
(*   - the API access layer (src/src/services/api.ts): one async function  *)
(*     per resource operation, each a fetch, a response-shape              *)
(*     normalisation and a fallback to the mock data store;                *)
(*   - the BookDetail and ReadingLists pages (src/src/pages/BookDetail.tsx)*)
(*     that call the layer and keep {loading, error, data} state.          *)
(*                                                                         *)
(* A JavaScript value is a record tagged by its kind (k).  A string is a   *)
(* TLA+ string.  JSON text is a string; JSON.parse and response.json() are *)
(* JSONParse, defined on the finite set of texts the model's backend can   *)
(* send (JSONTable) and throwing on every other text.                      *)
(***************************************************************************)
EXTENDS Integers, Sequences, FiniteSets, TLC

VARIABLES
    calls,        \* the access-layer calls whose promise someone still holds,
                  \* in the order they were made
    started,      \* the number of calls the mounted page has made
    lastSettled,  \* the call whose settling a page handler ran on last
    clock,        \* Date.now(), as an offset from the session's start
    bookId,       \* BookDetail: the route parameter id ("" when absent)
    book,         \* BookDetail: useState book
    bookLoading,  \* BookDetail: useState isLoading
    bookError,    \* BookDetail: useState error
    lists,        \* ReadingLists: useState lists
    isLoading,    \* ReadingLists: useState isLoading
    error,        \* ReadingLists: useState error
    newListName,  \* ReadingLists: useState newListName
    editingList,  \* ReadingLists: useState editingList
    mockData,     \* the arrays services/mockData.ts exports, as they stand
    notices,      \* what alert / showSuccess / handleApiError have shown
    page          \* the page the router has mounted

vars == <<page, calls, clock, mockData, started, lastSettled, bookId, book, bookLoading, bookError,
          lists, isLoading, error, newListName, editingList, notices>>

bookVars == <<book, bookLoading, bookError>>
listVars == <<lists, isLoading, error, newListName, editingList, notices>>

----------------------------------------------------------------------------
(* JavaScript values *)

JUndef == [k |-> "undef"]
JNull == [k |-> "null"]
JBool(b) == [k |-> "bool", b |-> b]
JNum(n) == [k |-> "num", n |-> n]
JStr(s) == [k |-> "str", s |-> s]
JArr(items) == [k |-> "arr", items |-> items]
JObj(f) == [k |-> "obj", f |-> f]

\* ToBoolean: what `if (v)`, `!v`, `a && b` and `a || b` test.
Truthy(v) ==
    CASE v.k \in {"undef", "null"} -> FALSE
      [] v.k = "bool" -> v.b
      [] v.k = "num" -> v.n # 0
      [] v.k = "str" -> v.s # ""
      [] OTHER -> TRUE

\* Reading a property of null or undefined throws a TypeError.
IsNullish(v) == v.k \in {"undef", "null"}

\* v.key for a v that is not nullish: the own property of an object,
\* undefined on every other value the model holds.
Get(v, key) ==
    IF v.k = "obj" /\ key \in DOMAIN v.f THEN v.f[key] ELSE JUndef

\* { ...a, ...b } for two objects: b's properties win.
Spread(a, b) ==
    JObj([key \in DOMAIN a.f \cup DOMAIN b.f |->
            IF key \in DOMAIN b.f THEN b.f[key] ELSE a.f[key]])

\* items.find(x => x.id === id) for a JavaScript value id: the first match,
\* or undefined.
FindById(items, id) ==
    IF \E i \in DOMAIN items : Get(items[i], "id") = id
    THEN items[CHOOSE i \in DOMAIN items :
                 /\ Get(items[i], "id") = id
                 /\ \A j \in 1..(i - 1) : Get(items[j], "id") # id]
    ELSE JUndef

\* String.prototype.trim on the names the model's user can type.
Trim(s) ==
    CASE s = " " -> ""
      [] s = "  " -> ""
      [] s = " A" -> "A"
      [] OTHER -> s

Digit(n) ==
    CASE n = 0 -> "0" [] n = 1 -> "1" [] n = 2 -> "2" [] n = 3 -> "3"
      [] n = 4 -> "4" [] n = 5 -> "5" [] n = 6 -> "6" [] n = 7 -> "7"
      [] n = 8 -> "8" [] n = 9 -> "9"

RECURSIVE NumberToString(_)
\* Number.prototype.toString for a natural number: its decimal digits.
NumberToString(n) ==
    IF n < 10 THEN Digit(n) ELSE NumberToString(n \div 10) \o Digit(n % 10)

\* Date.now().toString() at clock value c: the session starts at
\* 1700000000000 ms, the clock counts the milliseconds since, and
\* the sum is written digit by digit (it does not fit a TLC integer).
DateNowToString(c) == "17000000000" \o NumberToString(100 + c)

\* new Date().toISOString() at clock value c.
ToISOString(c) == "2023-11-14T22:13:20." \o NumberToString(100 + c) \o "Z"

----------------------------------------------------------------------------
(* JSON text.  The backend's bodies, each with the value it parses to. *)

JSONTable ==
    << [text |-> "{\"message\":\"x\"}",
       value |-> JObj("message" :> JStr("x"))],
       [text |-> "null",
       value |-> JNull],
       [text |-> "5",
       value |-> JNum(5)],
       [text |-> "{\"statusCode\":200,\"body\":\"null\"}",
       value |-> JObj("statusCode" :> JNum(200) @@ "body" :> JStr("null"))],
       [text |-> "{\"statusCode\":200,\"body\":\"oops\"}",
       value |-> JObj("statusCode" :> JNum(200) @@ "body" :> JStr("oops"))],
       [text |-> "{\"statusCode\":200,\"body\":\"\"}",
       value |-> JObj("statusCode" :> JNum(200) @@ "body" :> JStr(""))],
       [text |-> "{\"statusCode\":200,\"body\":\"{\\\"message\\\":\\\"x\\\"}\"}",
       value |-> JObj("statusCode" :> JNum(200) @@ "body" :> JStr("{\"message\":\"x\"}"))],
       [text |-> "[{\"id\":\"7\",\"title\":\"Dune\"}]",
       value |-> JArr(<<JObj("id" :> JStr("7") @@ "title" :> JStr("Dune"))>>)],
       [text |-> "{\"id\":\"7\",\"title\":\"Dune\"}",
       value |-> JObj("id" :> JStr("7") @@ "title" :> JStr("Dune"))],
       [text |-> "{\"book\":{\"id\":\"7\",\"title\":\"Dune\"}}",
       value |-> JObj("book" :> JObj("id" :> JStr("7") @@ "title" :> JStr("Dune")))],
       [text |-> "{\"success\":true,\"book\":{\"id\":\"7\",\"title\":\"Dune\"}}",
       value |-> JObj("success" :> JBool(TRUE) @@ "book" :> JObj("id" :> JStr("7") @@ "title" :> JStr("Dune")))],
       [text |-> "{\"success\":true,\"books\":[{\"id\":\"7\",\"title\":\"Dune\"}]}",
       value |-> JObj("success" :> JBool(TRUE) @@ "books" :> JArr(<<JObj("id" :> JStr("7") @@ "title" :> JStr("Dune"))>>))],
       [text |-> "{\"statusCode\":200,\"body\":\"[{\\\"id\\\":\\\"7\\\",\\\"title\\\":\\\"Dune\\\"}]\"}",
       value |-> JObj("statusCode" :> JNum(200) @@ "body" :> JStr("[{\"id\":\"7\",\"title\":\"Dune\"}]"))],
       [text |-> "{\"statusCode\":200,\"body\":\"{\\\"id\\\":\\\"7\\\",\\\"title\\\":\\\"Dune\\\"}\"}",
       value |-> JObj("statusCode" :> JNum(200) @@ "body" :> JStr("{\"id\":\"7\",\"title\":\"Dune\"}"))],
       [text |-> "{\"statusCode\":200,\"body\":\"{\\\"book\\\":{\\\"id\\\":\\\"7\\\",\\\"title\\\":\\\"Dune\\\"}}\"}",
       value |-> JObj("statusCode" :> JNum(200) @@ "body" :> JStr("{\"book\":{\"id\":\"7\",\"title\":\"Dune\"}}"))],
       [text |-> "[{\"id\":\"7\",\"userId\":\"u1\",\"name\":\"A\"}]",
       value |-> JArr(<<JObj("id" :> JStr("7") @@ "userId" :> JStr("u1") @@ "name" :> JStr("A"))>>)],
       [text |-> "{\"id\":\"7\",\"userId\":\"u1\",\"name\":\"A\"}",
       value |-> JObj("id" :> JStr("7") @@ "userId" :> JStr("u1") @@ "name" :> JStr("A"))],
       [text |-> "{\"list\":{\"id\":\"7\",\"userId\":\"u1\",\"name\":\"A\"}}",
       value |-> JObj("list" :> JObj("id" :> JStr("7") @@ "userId" :> JStr("u1") @@ "name" :> JStr("A")))],
       [text |-> "{\"success\":true,\"list\":{\"id\":\"7\",\"userId\":\"u1\",\"name\":\"A\"}}",
       value |-> JObj("success" :> JBool(TRUE) @@ "list" :> JObj("id" :> JStr("7") @@ "userId" :> JStr("u1") @@ "name" :> JStr("A")))],
       [text |-> "{\"success\":true,\"lists\":[{\"id\":\"7\",\"userId\":\"u1\",\"name\":\"A\"}]}",
       value |-> JObj("success" :> JBool(TRUE) @@ "lists" :> JArr(<<JObj("id" :> JStr("7") @@ "userId" :> JStr("u1") @@ "name" :> JStr("A"))>>))],
       [text |-> "{\"statusCode\":200,\"body\":\"[{\\\"id\\\":\\\"7\\\",\\\"userId\\\":\\\"u1\\\",\\\"name\\\":\\\"A\\\"}]\"}",
       value |-> JObj("statusCode" :> JNum(200) @@ "body" :> JStr("[{\"id\":\"7\",\"userId\":\"u1\",\"name\":\"A\"}]"))],
       [text |-> "{\"statusCode\":200,\"body\":\"{\\\"id\\\":\\\"7\\\",\\\"userId\\\":\\\"u1\\\",\\\"name\\\":\\\"A\\\"}\"}",
       value |-> JObj("statusCode" :> JNum(200) @@ "body" :> JStr("{\"id\":\"7\",\"userId\":\"u1\",\"name\":\"A\"}"))],
       [text |-> "{\"statusCode\":200,\"body\":\"{\\\"list\\\":{\\\"id\\\":\\\"7\\\",\\\"userId\\\":\\\"u1\\\",\\\"name\\\":\\\"A\\\"}}\"}",
       value |-> JObj("statusCode" :> JNum(200) @@ "body" :> JStr("{\"list\":{\"id\":\"7\",\"userId\":\"u1\",\"name\":\"A\"}}"))],
       [text |-> "[{\"id\":\"7\",\"bookId\":\"1\",\"rating\":5}]",
       value |-> JArr(<<JObj("id" :> JStr("7") @@ "bookId" :> JStr("1") @@ "rating" :> JNum(5))>>)],
       [text |-> "{\"id\":\"7\",\"bookId\":\"1\",\"rating\":5}",
       value |-> JObj("id" :> JStr("7") @@ "bookId" :> JStr("1") @@ "rating" :> JNum(5))],
       [text |-> "{\"review\":{\"id\":\"7\",\"bookId\":\"1\",\"rating\":5}}",
       value |-> JObj("review" :> JObj("id" :> JStr("7") @@ "bookId" :> JStr("1") @@ "rating" :> JNum(5)))],
       [text |-> "{\"success\":true,\"review\":{\"id\":\"7\",\"bookId\":\"1\",\"rating\":5}}",
       value |-> JObj("success" :> JBool(TRUE) @@ "review" :> JObj("id" :> JStr("7") @@ "bookId" :> JStr("1") @@ "rating" :> JNum(5)))],
       [text |-> "{\"success\":true,\"reviews\":[{\"id\":\"7\",\"bookId\":\"1\",\"rating\":5}]}",
       value |-> JObj("success" :> JBool(TRUE) @@ "reviews" :> JArr(<<JObj("id" :> JStr("7") @@ "bookId" :> JStr("1") @@ "rating" :> JNum(5))>>))],
       [text |-> "{\"statusCode\":200,\"body\":\"[{\\\"id\\\":\\\"7\\\",\\\"bookId\\\":\\\"1\\\",\\\"rating\\\":5}]\"}",
       value |-> JObj("statusCode" :> JNum(200) @@ "body" :> JStr("[{\"id\":\"7\",\"bookId\":\"1\",\"rating\":5}]"))],
       [text |-> "{\"statusCode\":200,\"body\":\"{\\\"id\\\":\\\"7\\\",\\\"bookId\\\":\\\"1\\\",\\\"rating\\\":5}\"}",
       value |-> JObj("statusCode" :> JNum(200) @@ "body" :> JStr("{\"id\":\"7\",\"bookId\":\"1\",\"rating\":5}"))],
       [text |-> "{\"statusCode\":200,\"body\":\"{\\\"review\\\":{\\\"id\\\":\\\"7\\\",\\\"bookId\\\":\\\"1\\\",\\\"rating\\\":5}}\"}",
       value |-> JObj("statusCode" :> JNum(200) @@ "body" :> JStr("{\"review\":{\"id\":\"7\",\"bookId\":\"1\",\"rating\":5}}"))] >>

GenericBodies ==
    { "null",
      "5",
      "{\"message\":\"x\"}",
      "{\"statusCode\":200,\"body\":\"null\"}",
      "{\"statusCode\":200,\"body\":\"oops\"}",
      "{\"statusCode\":200,\"body\":\"\"}",
      "{\"statusCode\":200,\"body\":\"{\\\"message\\\":\\\"x\\\"}\"}",
      "<html>" }

BookBodies ==
    { "[{\"id\":\"7\",\"title\":\"Dune\"}]",
      "{\"id\":\"7\",\"title\":\"Dune\"}",
      "{\"success\":true,\"book\":{\"id\":\"7\",\"title\":\"Dune\"}}",
      "{\"success\":true,\"books\":[{\"id\":\"7\",\"title\":\"Dune\"}]}",
      "{\"statusCode\":200,\"body\":\"[{\\\"id\\\":\\\"7\\\",\\\"title\\\":\\\"Dune\\\"}]\"}",
      "{\"statusCode\":200,\"body\":\"{\\\"id\\\":\\\"7\\\",\\\"title\\\":\\\"Dune\\\"}\"}",
      "{\"statusCode\":200,\"body\":\"{\\\"book\\\":{\\\"id\\\":\\\"7\\\",\\\"title\\\":\\\"Dune\\\"}}\"}" }

ListBodies ==
    { "[{\"id\":\"7\",\"userId\":\"u1\",\"name\":\"A\"}]",
      "{\"id\":\"7\",\"userId\":\"u1\",\"name\":\"A\"}",
      "{\"success\":true,\"list\":{\"id\":\"7\",\"userId\":\"u1\",\"name\":\"A\"}}",
      "{\"success\":true,\"lists\":[{\"id\":\"7\",\"userId\":\"u1\",\"name\":\"A\"}]}",
      "{\"statusCode\":200,\"body\":\"[{\\\"id\\\":\\\"7\\\",\\\"userId\\\":\\\"u1\\\",\\\"name\\\":\\\"A\\\"}]\"}",
      "{\"statusCode\":200,\"body\":\"{\\\"id\\\":\\\"7\\\",\\\"userId\\\":\\\"u1\\\",\\\"name\\\":\\\"A\\\"}\"}",
      "{\"statusCode\":200,\"body\":\"{\\\"list\\\":{\\\"id\\\":\\\"7\\\",\\\"userId\\\":\\\"u1\\\",\\\"name\\\":\\\"A\\\"}}\"}" }

ReviewBodies ==
    { "[{\"id\":\"7\",\"bookId\":\"1\",\"rating\":5}]",
      "{\"id\":\"7\",\"bookId\":\"1\",\"rating\":5}",
      "{\"success\":true,\"review\":{\"id\":\"7\",\"bookId\":\"1\",\"rating\":5}}",
      "{\"success\":true,\"reviews\":[{\"id\":\"7\",\"bookId\":\"1\",\"rating\":5}]}",
      "{\"statusCode\":200,\"body\":\"[{\\\"id\\\":\\\"7\\\",\\\"bookId\\\":\\\"1\\\",\\\"rating\\\":5}]\"}",
      "{\"statusCode\":200,\"body\":\"{\\\"id\\\":\\\"7\\\",\\\"bookId\\\":\\\"1\\\",\\\"rating\\\":5}\"}",
      "{\"statusCode\":200,\"body\":\"{\\\"review\\\":{\\\"id\\\":\\\"7\\\",\\\"bookId\\\":\\\"1\\\",\\\"rating\\\":5}}\"}" }

IsJSON(text) == \E i \in DOMAIN JSONTable : JSONTable[i].text = text

\* JSON.parse(text) for a text that is JSON; it throws on any other text,
\* which the callers test with IsJSON first.
JSONParse(text) ==
    JSONTable[CHOOSE i \in DOMAIN JSONTable : JSONTable[i].text = text].value

----------------------------------------------------------------------------
(* The mock data store (services/mockData.ts). *)

mockBooks ==
    << JObj("id" :> JStr("1") @@ "title" :> JStr("The Midnight Library")),
       JObj("id" :> JStr("2") @@ "title" :> JStr("Project Hail Mary")) >>

mockReadingLists ==
    << JObj("id" :> JStr("1") @@ "userId" :> JStr("1")
            @@ "name" :> JStr("Summer Reading")
            @@ "description" :> JStr("Books for the beach")
            @@ "bookIds" :> JArr(<<JStr("1"), JStr("2")>>)
            @@ "createdAt" :> JStr("2024-01-01T00:00:00Z")
            @@ "updatedAt" :> JStr("2024-01-01T00:00:00Z")) >>

----------------------------------------------------------------------------
(* The access layer (services/api.ts).                                     *)
(* A response is what fetch settles with: a network error (fetch rejects)  *)
(* or an HTTP response with a status and a body text.                      *)

NoResponse == [net |-> "none", status |-> 0, text |-> ""]
NetworkError == [net |-> "error", status |-> 0, text |-> ""]
HttpResponse(status, text) == [net |-> "ok", status |-> status, text |-> text]

\* response.ok
ResponseOk(resp) == resp.status >= 200 /\ resp.status <= 299

\* What a try block ends with: a return value, or a throw that its catch
\* block takes.
Return(v) == [t |-> "return", v |-> v]
Throw == [t |-> "throw", v |-> JUndef]

\* if (result.body && typeof result.body === 'string')
IsEnvelope(result) ==
    /\ Truthy(Get(result, "body"))
    /\ Get(result, "body").k = "str"

\* The head of every try block: await fetch(...), the !response.ok throw,
\* await response.json(), and the first read of a property of result
\* (result.body), which throws on null.
FetchThrows(resp) ==
    \/ resp.net = "error"
    \/ ~ResponseOk(resp)
    \/ ~IsJSON(resp.text)
    \/ IsNullish(JSONParse(resp.text))

GetBooksTry(resp) ==
    IF FetchThrows(resp) THEN Throw
    ELSE LET result == JSONParse(resp.text) IN
      IF IsEnvelope(result) THEN
        IF ~IsJSON(Get(result, "body").s) THEN Throw
        ELSE LET books == JSONParse(Get(result, "body").s) IN
          \* `${books.length}` in the log line throws on null
          IF IsNullish(books) THEN Throw ELSE Return(books)
      ELSE IF result.k = "arr" THEN Return(result)
      ELSE Throw

\* The fallback's timer callback: resolve([...mockBooks]).
GetBooksFallback == JArr(mockData.mockBooks)

GetBookTry(id, resp) ==
    IF resp.net = "error" THEN Throw
    ELSE IF resp.status = 404 THEN Return(JNull)
    ELSE IF FetchThrows(resp) THEN Throw
    ELSE LET result == JSONParse(resp.text) IN
      IF IsEnvelope(result) THEN
        IF ~IsJSON(Get(result, "body").s) THEN Throw
        ELSE Return(JSONParse(Get(result, "body").s))
      ELSE IF Truthy(Get(result, "id")) THEN Return(result)
      ELSE IF Truthy(Get(result, "success")) /\ Truthy(Get(result, "book"))
        THEN Return(Get(result, "book"))
      ELSE Return(JNull)

\* A getBook whose catch block does not search the mock store.
GetBookFallbackNoSearch(id) == JNull

\* The catch block: mockBooks.find(...), or null.
GetBookFallback(id) ==
    IF Truthy(FindById(mockData.mockBooks, id))
    THEN FindById(mockData.mockBooks, id) ELSE JNull

GetReadingListsTry(resp) ==
    IF FetchThrows(resp) THEN Throw
    ELSE LET result == JSONParse(resp.text) IN
      IF IsEnvelope(result) THEN
        IF ~IsJSON(Get(result, "body").s) THEN Throw
        ELSE LET parsed == JSONParse(Get(result, "body").s) IN
          \* `${lists.length}` in the log line throws on null
          IF IsNullish(parsed) THEN Throw ELSE Return(parsed)
      ELSE IF result.k = "arr" THEN Return(result)
      ELSE IF result.k = "obj" THEN Return(JArr(<<result>>))
      ELSE Return(JArr(<<>>))

\* The catch block: return [...mockReadingLists].
GetReadingListsFallback == JArr(mockData.mockReadingLists)

\* An envelope handler that returns the body as it came, unparsed.
UnwrapEnvelopeUnparsed(result, key) == Return(Get(result, "body"))

\* The try blocks of createReadingList and updateReadingList (key "list")
\* and of createBook and updateBook (key "book") after the fetch:
\* parsed[key] || parsed for an envelope.
UnwrapEnvelope(result, key) ==
    IF ~IsJSON(Get(result, "body").s) THEN Throw
    ELSE LET parsed == JSONParse(Get(result, "body").s) IN
      IF IsNullish(parsed) THEN Throw
      ELSE IF Truthy(Get(parsed, key)) THEN Return(Get(parsed, key))
      ELSE Return(parsed)

CreateReadingListTry(list, resp) ==
    IF FetchThrows(resp) THEN Throw
    ELSE LET result == JSONParse(resp.text) IN
      IF IsEnvelope(result) THEN UnwrapEnvelope(result, "list")
      ELSE IF Truthy(Get(result, "success")) /\ Truthy(Get(result, "list"))
        THEN Return(Get(result, "list"))
      ELSE Return(result)

\* The fallback's timer callback at clock value now.
CreateReadingListFallback(list, now) ==
    Spread(list, JObj("id" :> JStr(DateNowToString(now))
                      @@ "createdAt" :> JStr(ToISOString(now))
                      @@ "updatedAt" :> JStr(ToISOString(now))))

\* if (!list.userId) throw ..., before the try block
UpdateReadingListInvalid(list) == ~Truthy(Get(list, "userId"))

UpdateReadingListTry(id, list, resp) ==
    IF FetchThrows(resp) THEN Throw
    ELSE LET result == JSONParse(resp.text) IN
      IF IsEnvelope(result) THEN UnwrapEnvelope(result, "list")
      ELSE IF Truthy(Get(result, "success")) /\ Truthy(Get(result, "list"))
        THEN Return(Get(result, "list"))
      ELSE Return(result)

\* An overlay in which the patch is spread last.
UpdateReadingListFallbackPatchLast(id, list, now) ==
    LET existingList == FindById(mockData.mockReadingLists, id) IN
    IF ~Truthy(existingList) THEN Throw
    ELSE Return(Spread(Spread(existingList,
                              JObj("id" :> id
                                   @@ "updatedAt" :> JStr(ToISOString(now)))),
                       list))

\* An overlay that lets the patch's own id stand.
UpdateReadingListFallbackPatchId(id, list, now) ==
    LET existingList == FindById(mockData.mockReadingLists, id) IN
    IF ~Truthy(existingList) THEN Throw
    ELSE Return(Spread(Spread(existingList, list),
                       JObj("updatedAt" :> JStr(ToISOString(now)))))

\* The fallback's timer callback: it throws (inside the timer, where no
\* one catches it and the promise is never settled) when the mock store has
\* no such list, and resolves with the overlaid record otherwise.
UpdateReadingListFallback(id, list, now) ==
    LET existingList == FindById(mockData.mockReadingLists, id) IN
    IF ~Truthy(existingList) THEN Throw
    ELSE Return(Spread(Spread(existingList, list),
                       JObj("id" :> id
                            @@ "updatedAt" :> JStr(ToISOString(now)))))

\* deleteReadingList and deleteBook: the body is parsed and dropped.
DeleteTry(resp) ==
    IF resp.net = "error" \/ ~ResponseOk(resp) \/ ~IsJSON(resp.text)
    THEN Throw ELSE Return(JUndef)

\* The fallback's timer callback of both deletes: resolve().
DeleteFallback(id) == JUndef

CreateBookTry(newBook, resp) ==
    IF FetchThrows(resp) THEN Throw
    ELSE LET result == JSONParse(resp.text) IN
      IF IsEnvelope(result) THEN UnwrapEnvelope(result, "book")
      ELSE Return(result)

CreateBookFallback(newBook, now) ==
    Spread(newBook, JObj("id" :> JStr(DateNowToString(now))))

UpdateBookTry(id, patch, resp) ==
    IF FetchThrows(resp) THEN Throw
    ELSE LET result == JSONParse(resp.text) IN
      IF IsEnvelope(result) THEN UnwrapEnvelope(result, "book")
      ELSE Return(result)

UpdateBookFallback(id, patch) ==
    LET existingBook == FindById(mockData.mockBooks, id) IN
    IF ~Truthy(existingBook) THEN Throw
    ELSE Return(Spread(Spread(existingBook, patch), JObj("id" :> id)))

\* The synthetic list getRecommendations resolves with (confidence in
\* hundredths).
mockRecommendations ==
    JArr(<< JObj("id" :> JStr("1") @@ "bookId" :> JStr("1")
                 @@ "reason" :> JStr("philosophical fiction")
                 @@ "confidence" :> JNum(92)),
            JObj("id" :> JStr("2") @@ "bookId" :> JStr("2")
                 @@ "reason" :> JStr("science-based thrillers")
                 @@ "confidence" :> JNum(88)) >>)

GetReviewsTry(id, resp) ==
    IF FetchThrows(resp) THEN Throw
    ELSE LET result == JSONParse(resp.text) IN
      IF IsEnvelope(result) THEN
        IF ~IsJSON(Get(result, "body").s) THEN Throw
        ELSE Return(JSONParse(Get(result, "body").s))
      ELSE IF result.k = "arr" THEN Return(result)
      ELSE Return(JArr(<<>>))

GetReviewsFallback(id) ==
    JArr(<< JObj("id" :> JStr("1") @@ "bookId" :> id
                 @@ "userId" :> JStr("1") @@ "rating" :> JNum(5)
                 @@ "comment" :> JStr("Absolutely loved this book! A must-read.")
                 @@ "createdAt" :> JStr("2024-11-01T10:00:00Z")) >>)

CreateReviewTry(review, resp) ==
    IF FetchThrows(resp) THEN Throw
    ELSE LET result == JSONParse(resp.text) IN
      IF IsEnvelope(result) THEN
        IF ~IsJSON(Get(result, "body").s) THEN Throw
        ELSE Return(JSONParse(Get(result, "body").s))
      ELSE Return(result)

CreateReviewFallback(review, now) ==
    Spread(review, JObj("id" :> JStr(DateNowToString(now))
                        @@ "createdAt" :> JStr(ToISOString(now))))

----------------------------------------------------------------------------
(* One call of an access-layer function, as the promise its caller holds.  *)
(*   pc      "fetch"    the request is in flight                           *)
(*           "timer"    a setTimeout callback is scheduled                 *)
(*           "resolved" | "rejected"   the promise is settled              *)
(*           "hung"     the timer callback threw: the promise stays        *)
(*                      pending for ever                                   *)
(*   via     where a resolved value came from: "backend" (the try block)   *)
(*           or "mock" (the fallback)                                      *)
(*   reqs    the number of fetch calls the function has made               *)
(*   n       the call's serial number                                      *)
(*   owner   the caller: a direct caller, or the page handler awaiting it: *)
(*           h, the handler; cap, the lists state its closure captured;    *)
(*           by, for a loadLists a write handler made, that handler's call *)
(*   req     the request the function hands to fetch                       *)

Owner(h, cap, by) == [h |-> h, cap |-> cap, by |-> by]
Direct == Owner("direct", JUndef, JUndef)

API_BASE_URL == "https://jqvee48nk3.execute-api.us-east-1.amazonaws.com/dev"

\* `${v}` in a template literal.
TemplateString(v) ==
    CASE v.k = "str" -> v.s
      [] v.k = "undef" -> "undefined"
      [] v.k = "null" -> "null"
      [] OTHER -> "[object Object]"

\* fetch(url, {method}); the method is GET when no options are given.
HttpRequest(method, url) == [method |-> method, url |-> url]
NoRequest == HttpRequest("none", "")

\* A delete that does not say whose list it deletes.
DeleteReadingListURLNoUser(id, userId) ==
    API_BASE_URL \o "/reading-lists/" \o TemplateString(id)

\* `${API_BASE_URL}/reading-lists/${id}?userId=${userId}`
DeleteReadingListURL(id, userId) ==
    API_BASE_URL \o "/reading-lists/" \o TemplateString(id)
                 \o "?userId=" \o TemplateString(userId)

\* The request each function hands to fetch.
Request(op, id, arg) ==
    CASE op = "getBooks" -> HttpRequest("GET", API_BASE_URL \o "/books")
      [] op = "getBook" ->
           HttpRequest("GET", API_BASE_URL \o "/books/" \o TemplateString(id))
      [] op = "getReadingLists" ->
           HttpRequest("GET", API_BASE_URL \o "/reading-lists")
      [] op = "createReadingList" ->
           HttpRequest("POST", API_BASE_URL \o "/reading-lists")
      [] op = "updateReadingList" ->
           HttpRequest("PUT", API_BASE_URL \o "/reading-lists/" \o TemplateString(id))
      [] op = "deleteReadingList" ->
           HttpRequest("DELETE", DeleteReadingListURL(id, arg))
      [] op = "createBook" -> HttpRequest("POST", API_BASE_URL \o "/books")
      [] op = "updateBook" ->
           HttpRequest("PUT", API_BASE_URL \o "/books/" \o TemplateString(id))
      [] op = "deleteBook" ->
           HttpRequest("DELETE", API_BASE_URL \o "/books/" \o TemplateString(id))
      [] op = "getReviews" ->
           HttpRequest("GET", API_BASE_URL \o "/books/" \o TemplateString(id)
                                           \o "/reviews")
      [] op = "createReview" -> HttpRequest("POST", API_BASE_URL \o "/reviews")
      [] OTHER -> NoRequest

ReadOps == {"getBooks", "getBook", "getReadingLists", "getReviews"}
WriteOps == {"createReadingList", "updateReadingList", "deleteReadingList",
             "createBook", "updateBook", "deleteBook", "createReview"}
Ops == ReadOps \cup WriteOps \cup {"getRecommendations"}

\* The functions whose fallback resolves from a setTimeout callback.
TimerOps == Ops \ {"getBook", "getReadingLists"}

Settled == {"resolved", "rejected"}
Final == Settled \cup {"hung"}

\* A head in which every function but an invalid update sends a request.
NewCallAlwaysFetches(op, id, arg, owner, n) ==
    LET c == [op |-> op, id |-> id, arg |-> arg, owner |-> owner, n |-> n,
              pc |-> "fetch", resp |-> NoResponse, value |-> JUndef,
              via |-> "none", reqs |-> 1, req |-> Request(op, id, arg)] IN
    IF op = "updateReadingList" /\ UpdateReadingListInvalid(arg)
    THEN [c EXCEPT !.pc = "rejected", !.reqs = 0, !.req = NoRequest,
                   !.value = JStr("userId is required to update reading list")]
    ELSE c

\* The synchronous head of the function: the call as it stands when the
\* function first awaits.
NewCall(op, id, arg, owner, n) ==
    LET c == [op |-> op, id |-> id, arg |-> arg, owner |-> owner, n |-> n,
              pc |-> "fetch", resp |-> NoResponse, value |-> JUndef,
              via |-> "none", reqs |-> 1, req |-> Request(op, id, arg)] IN
    IF op = "updateReadingList" /\ UpdateReadingListInvalid(arg)
    THEN [c EXCEPT !.pc = "rejected", !.reqs = 0, !.req = NoRequest,
                   !.value = JStr("userId is required to update reading list")]
    ELSE IF op = "getRecommendations"
    THEN [c EXCEPT !.pc = "timer", !.reqs = 0]
    ELSE c

\* The try block of call c run on the response resp.
Try(c, resp) ==
    CASE c.op = "getBooks" -> GetBooksTry(resp)
      [] c.op = "getBook" -> GetBookTry(c.id, resp)
      [] c.op = "getReadingLists" -> GetReadingListsTry(resp)
      [] c.op = "createReadingList" -> CreateReadingListTry(c.arg, resp)
      [] c.op = "updateReadingList" -> UpdateReadingListTry(c.id, c.arg, resp)
      [] c.op = "createBook" -> CreateBookTry(c.arg, resp)
      [] c.op = "updateBook" -> UpdateBookTry(c.id, c.arg, resp)
      [] c.op = "getReviews" -> GetReviewsTry(c.id, resp)
      [] c.op = "createReview" -> CreateReviewTry(c.arg, resp)
      [] OTHER -> DeleteTry(resp)

\* Functions without their catch block: a throw of the try block rejects.
OnResponseNoCatch(c, resp) ==
    LET r == Try(c, resp) IN
    IF r.t = "return"
    THEN [c EXCEPT !.pc = "resolved", !.resp = resp, !.value = r.v,
                   !.via = "backend"]
    ELSE [c EXCEPT !.pc = "rejected", !.resp = resp,
                   !.value = JStr("HTTP error!")]

\* The call after its fetch has settled with resp: the try block's return
\* value, or the catch block, which answers at once (getBook,
\* getReadingLists) or schedules a timer.
OnResponse(c, resp) ==
    LET r == Try(c, resp) IN
    IF r.t = "return"
    THEN [c EXCEPT !.pc = "resolved", !.resp = resp, !.value = r.v,
                   !.via = "backend"]
    ELSE IF c.op = "getBook"
    THEN [c EXCEPT !.pc = "resolved", !.resp = resp, !.via = "mock",
                   !.value = GetBookFallback(c.id)]
    ELSE IF c.op = "getReadingLists"
    THEN [c EXCEPT !.pc = "resolved", !.resp = resp, !.via = "mock",
                   !.value = GetReadingListsFallback]
    ELSE [c EXCEPT !.pc = "timer", !.resp = resp]

\* What the scheduled setTimeout callback of call c does at clock value now.
TimerCallback(c, now) ==
    CASE c.op = "getBooks" -> Return(GetBooksFallback)
      [] c.op = "createReadingList" -> Return(CreateReadingListFallback(c.arg, now))
      [] c.op = "updateReadingList" -> UpdateReadingListFallback(c.id, c.arg, now)
      [] c.op = "createBook" -> Return(CreateBookFallback(c.arg, now))
      [] c.op = "updateBook" -> UpdateBookFallback(c.id, c.arg)
      [] c.op = "getRecommendations" -> Return(mockRecommendations)
      [] c.op = "getReviews" -> Return(GetReviewsFallback(c.id))
      [] c.op = "createReview" -> Return(CreateReviewFallback(c.arg, now))
      [] OTHER -> Return(DeleteFallback(c.id))

\* A fallback that keeps the record it creates: it pushes the new reading
\* list onto the mock store.
MockDataAfterTimerPush(c, now) ==
    IF c.op = "createReadingList"
    THEN [mockData EXCEPT !.mockReadingLists =
             Append(@, CreateReadingListFallback(c.arg, now))]
    ELSE mockData

\* The mock store after the timer callback of call c: the callbacks read
\* the store (find, spread into a new array or object) and never write it.
MockDataAfterTimer(c, now) == mockData

\* A fallback that sends the request again when its callback throws.
OnTimerRetry(c, now) ==
    LET r == TimerCallback(c, now) IN
    IF r.t = "return"
    THEN [c EXCEPT !.pc = "resolved", !.value = r.v, !.via = "mock"]
    ELSE [c EXCEPT !.pc = "fetch", !.reqs = c.reqs + 1]

\* The call after its timer has fired: resolve(value), or a throw inside
\* the callback, which settles nothing.
OnTimer(c, now) ==
    LET r == TimerCallback(c, now) IN
    IF r.t = "return"
    THEN [c EXCEPT !.pc = "resolved", !.value = r.v, !.via = "mock"]
    ELSE [c EXCEPT !.pc = "hung"]

----------------------------------------------------------------------------
(* Bounds and the inputs the callers and the backend draw from. *)

\* The clock runs over 0..MaxClock.
MaxClock == 2
\* SpecMockPath: the direct calls one session makes in a row.
MaxTripCalls == 3
\* SpecBook: the getBook calls the BookDetail page starts.
MaxBookLoads == 2
\* SpecLists, SpecPages: the calls the ReadingLists page starts (a write is
\* started only when its reload fits too).
MaxListCalls == 3
\* SpecOverlap: the same, for a user who starts a write while another is
\* in flight.
MaxOverlapCalls == 4

\* Ids a caller passes: "1" is in the mock store, "9" is in no store.
Ids == {JStr("1"), JStr("9")}

NewList(name) ==
    JObj("userId" :> JStr("test-user-123") @@ "name" :> JStr(name)
         @@ "description" :> JStr("") @@ "bookIds" :> JArr(<<>>))

ListPatches ==
    { JObj("userId" :> JStr("u1") @@ "name" :> JStr("B")),
      JObj("name" :> JStr("B")),
      JObj("userId" :> JStr("u1") @@ "name" :> JStr("C") @@ "id" :> JStr("5")
           @@ "updatedAt" :> JStr("2020-02-02T00:00:00Z")) }

BookPatches ==
    { JObj("title" :> JStr("Dune II")),
      JObj("title" :> JStr("Dune II") @@ "id" :> JStr("5")) }

NewBook == JObj("title" :> JStr("Emma"))
NewReview == JObj("bookId" :> JStr("1") @@ "userId" :> JStr("u1")
                  @@ "rating" :> JNum(4) @@ "comment" :> JStr("ok"))

\* The <id, argument> pairs a direct caller passes to each function.
Args(op) ==
    CASE op \in {"getBook", "deleteBook", "getReviews"} ->
           {<<id, JUndef>> : id \in Ids}
      [] op = "deleteReadingList" -> {<<id, JStr("u1")>> : id \in Ids}
      [] op = "createReadingList" -> {<<JUndef, NewList("A")>>}
      [] op = "updateReadingList" -> Ids \X ListPatches
      [] op = "createBook" -> {<<JUndef, NewBook>>}
      [] op = "updateBook" -> Ids \X BookPatches
      [] op = "createReview" -> {<<JUndef, NewReview>>}
      [] op = "getRecommendations" -> {<<JUndef, JUndef>>, <<JUndef, JStr("space")>>}
      [] OTHER -> {<<JUndef, JUndef>>}

\* The bodies the backend may answer a function's request with.
Bodies(op) ==
    GenericBodies \cup
    CASE op \in {"getBooks", "getBook", "createBook", "updateBook", "deleteBook"}
           -> BookBodies
      [] op \in {"getReviews", "createReview"} -> ReviewBodies
      [] OTHER -> ListBodies

\* What a failed request settles with: a network error, or a non-2xx status
\* (whose body the functions read and drop).
FailResponses ==
    {NetworkError} \cup
    {HttpResponse(status, "{\"message\":\"x\"}") : status \in {404, 500}}

Responses(op) ==
    FailResponses \cup {HttpResponse(200, text) : text \in Bodies(op)}

\* The bodies the backend answers the ReadingLists page's requests with.
PageBodies(op) ==
    CASE op = "getReadingLists" ->
           { "[{\"id\":\"7\",\"userId\":\"u1\",\"name\":\"A\"}]",
             "{\"message\":\"x\"}",
             "{\"statusCode\":200,\"body\":\"{\\\"id\\\":\\\"7\\\",\\\"userId\\\":\\\"u1\\\",\\\"name\\\":\\\"A\\\"}\"}",
             "{\"statusCode\":200,\"body\":\"null\"}" }
      [] op = "deleteReadingList" -> { "{\"message\":\"x\"}" }
      [] OTHER -> { "{\"id\":\"7\",\"userId\":\"u1\",\"name\":\"A\"}" }

PageResponses(op) ==
    {HttpResponse(404, "{\"message\":\"x\"}")}
    \cup {HttpResponse(200, text) : text \in PageBodies(op)}

\* What the user types into a name field.
TypedNames == {"", " ", "B"}

----------------------------------------------------------------------------
(* The BookDetail page. *)

Unmounted == [k |-> "unmounted"]

\* A loadBook that sends its request twice.
LoadBookStartTwice(id) ==
    /\ bookLoading' = TRUE
    /\ bookError' = JNull
    /\ calls' = calls \o
          << NewCall("getBook", id, JUndef,
                     Owner("loadBook", JUndef, JUndef), started + 1),
             NewCall("getBook", id, JUndef,
                     Owner("loadBook", JUndef, JUndef), started + 2) >>
    /\ started' = started + 2
    /\ UNCHANGED book

\* loadBook up to its await: the state it sets and the call it makes.
LoadBookStart(id) ==
    /\ bookLoading' = TRUE
    /\ bookError' = JNull
    /\ calls' = Append(calls, NewCall("getBook", id, JUndef,
                          Owner("loadBook", JUndef, JUndef), started + 1))
    /\ started' = started + 1
    /\ UNCHANGED book

\* loadBook after its await, for the settled call c (try, catch, finally).
LoadBookSettled(c) ==
    /\ bookLoading' = FALSE
    /\ IF c.pc = "rejected"
       THEN /\ bookError' = JStr("Failed to load book")
            /\ UNCHANGED book
       ELSE IF Truthy(c.value)
       THEN /\ book' = c.value
            /\ UNCHANGED bookError
       ELSE IF Truthy(FindById(mockData.mockBooks, c.id))
       THEN /\ book' = FindById(mockData.mockBooks, c.id)
            /\ UNCHANGED bookError
       ELSE /\ bookError' = JStr("Book with ID \"" \o TemplateString(c.id)
                                  \o "\" not found")
            /\ UNCHANGED book

----------------------------------------------------------------------------
(* The ReadingLists page. *)

\* A message shown to the user, with the serial number of the call it is
\* about (0: none).
Notice(kind, text, n) == [kind |-> kind, text |-> text, call |-> n]

\* loadLists up to its await, appended to the calls cs; by is the write
\* handler's call when a write handler makes it.
LoadListsStart(cs, by) ==
    /\ isLoading' = TRUE
    /\ error' = JNull
    /\ calls' = Append(cs, NewCall("getReadingLists", JUndef, JUndef,
                                   Owner("loadLists", JUndef, by), started + 1))
    /\ started' = started + 1

\* A loadLists that shows whatever value it is given.
LoadListsSettledKeepsValue(c) ==
    /\ isLoading' = FALSE
    /\ IF c.pc = "rejected"
       THEN /\ error' = JStr("Failed to load reading lists. Please try again.")
            /\ lists' = JArr(<<>>)
       ELSE /\ lists' = IF c.value.k = "arr" THEN c.value ELSE JArr(<<c.value>>)
            /\ UNCHANGED error

\* loadLists after its await, for the settled call c.
LoadListsSettled(c) ==
    /\ isLoading' = FALSE
    /\ IF c.pc = "rejected"
       THEN /\ error' = JStr("Failed to load reading lists. Please try again.")
            /\ lists' = JArr(<<>>)
       ELSE IF ~Truthy(c.value)
       THEN /\ error' = JStr("No data received from server")
            /\ lists' = JArr(<<>>)
       ELSE IF c.value.k # "arr"
       THEN /\ error' = JStr("Invalid data format from server")
            /\ lists' = JArr(<<>>)
       ELSE /\ lists' = c.value
            /\ UNCHANGED error

\* A validation that tests the name without trimming it.
CreateNameInvalidNoTrim(name) == name = ""

\* if (!newListName.trim())
CreateNameInvalid(name) == Trim(name) = ""

\* if (!editingList || !editingList.name.trim()), for an editingList whose
\* name is a string.
UpdateNameInvalid(editing) ==
    \/ ~Truthy(editing)
    \/ Trim(Get(editing, "name").s) = ""

\* lists.map((list) => (list.id === updatedList.id ? updatedList : list))
ReplaceById(items, updated) ==
    [j \in DOMAIN items |->
        IF Get(items[j], "id") = Get(updated, "id") THEN updated ELSE items[j]]

\* lists.filter((list) => list.id !== listId)
RECURSIVE RemoveById(_, _)
RemoveById(items, id) ==
    IF items = <<>> THEN <<>>
    ELSE IF Get(Head(items), "id") = id THEN RemoveById(Tail(items), id)
    ELSE <<Head(items)>> \o RemoveById(Tail(items), id)

\* A write handler after its await, for its settled call c, cs being the
\* other calls: the rest of the try block on a resolved promise (which ends
\* by calling loadLists), the catch block on a rejected one.
WriteSettled(c, cs) ==
    IF c.pc = "rejected"
    THEN /\ notices' = notices \cup {Notice("error", c.value.s, c.n)}
         /\ calls' = cs
         /\ UNCHANGED <<started, lists, isLoading, error, newListName,
                        editingList>>
    ELSE CASE c.owner.h = "handleCreateList" ->
                /\ lists' = JArr(<<c.value>> \o c.owner.cap.items)
                /\ newListName' = ""
                /\ notices' = notices \cup
                      {Notice("success", "Reading list created successfully!", c.n)}
                /\ LoadListsStart(cs, c)
                /\ UNCHANGED editingList
           [] c.owner.h = "handleUpdateList" ->
                /\ lists' = JArr(ReplaceById(c.owner.cap.items, c.value))
                /\ editingList' = JNull
                /\ notices' = notices \cup
                      {Notice("success", "Reading list updated successfully!", c.n)}
                /\ LoadListsStart(cs, c)
                /\ UNCHANGED newListName
           [] OTHER ->
                /\ lists' = JArr(RemoveById(c.owner.cap.items, c.id))
                /\ notices' = notices \cup
                      {Notice("success", "Reading list deleted successfully!", c.n)}
                /\ LoadListsStart(cs, c)
                /\ UNCHANGED <<newListName, editingList>>

----------------------------------------------------------------------------
(* The steps of a call, with the continuation of whoever awaits it. *)

Remove(cs, i) == SubSeq(cs, 1, i - 1) \o SubSeq(cs, i + 1, Len(cs))

\* Call i becomes c.  When that settles its promise, the awaiting caller
\* runs on: a page handler's continuation is a microtask, which runs before
\* any other response or timer, and ends the handler's hold on the promise.
Step(i, c) ==
    IF c.pc \notin Settled \/ c.owner.h = "direct"
    THEN /\ calls' = [calls EXCEPT ![i] = c]
         /\ UNCHANGED <<started, lastSettled, bookVars, listVars>>
    ELSE /\ lastSettled' = c
         /\ IF c.owner.h = "loadBook"
            THEN /\ LoadBookSettled(c)
                 /\ calls' = Remove(calls, i)
                 /\ UNCHANGED <<started, listVars>>
            ELSE IF c.owner.h = "loadLists"
            THEN /\ LoadListsSettled(c)
                 /\ calls' = Remove(calls, i)
                 /\ UNCHANGED <<started, bookVars, newListName, editingList,
                                notices>>
            ELSE /\ WriteSettled(c, Remove(calls, i))
                 /\ UNCHANGED bookVars

\* The fetch of call i settles with resp.
Respond(i, resp) ==
    /\ calls[i].pc = "fetch"
    /\ Step(i, OnResponse(calls[i], resp))
    /\ UNCHANGED <<page, clock, mockData, bookId>>

\* The timer of call i fires.
FireTimer(i) ==
    /\ calls[i].pc = "timer"
    /\ Step(i, OnTimer(calls[i], clock))
    /\ mockData' = MockDataAfterTimer(calls[i], clock)
    /\ UNCHANGED <<page, clock, bookId>>

\* Time passes.  Only timer callbacks read the clock, so the model lets it
\* advance only while one is scheduled.
Tick ==
    /\ clock < MaxClock
    /\ \E i \in DOMAIN calls : calls[i].pc = "timer"
    /\ clock' = clock + 1
    /\ UNCHANGED <<page, calls, started, lastSettled, bookId, bookVars,
                   listVars, mockData>>

----------------------------------------------------------------------------
(* Callers. *)

\* No call: lastSettled before any page call has settled.
NoCall == [NewCall("none", JUndef, JUndef, Direct, 0) EXCEPT !.pc = "none"]

Init ==
    /\ page = "none"
    /\ calls = <<>>
    /\ clock = 0
    /\ started = 0
    /\ lastSettled = NoCall
    /\ bookId = Unmounted
    /\ book = JNull
    /\ bookLoading = TRUE
    /\ bookError = JNull
    /\ lists = JArr(<<>>)
    /\ isLoading = TRUE
    /\ error = JNull
    /\ newListName = ""
    /\ editingList = JNull
    /\ notices = {}
    /\ mockData = [mockBooks |-> mockBooks,
                   mockReadingLists |-> mockReadingLists]

AllFinal == \A i \in DOMAIN calls : calls[i].pc \in Final

\* A direct caller calls a function once its earlier call is over, and
\* keeps only the new promise.
Call(op, id, arg) ==
    /\ page = "none"
    /\ AllFinal
    /\ calls' = <<NewCall(op, id, arg, Direct, 1)>>
    /\ UNCHANGED <<page, clock, mockData, started, lastSettled, bookId, bookVars,
                   listVars>>

\* The ids of the records a resolved createReadingList call returned.
CreatedIds ==
    {Get(calls[i].value, "id") : i \in {j \in DOMAIN calls :
        calls[j].op = "createReadingList" /\ calls[j].pc = "resolved"}}

\* A direct caller on the mock path makes its next reading-list call, and
\* keeps the earlier promises; an update may name a record it has created.
TripCall(op, id, arg) ==
    /\ page = "none"
    /\ AllFinal
    /\ Len(calls) < MaxTripCalls
    /\ calls' = Append(calls, NewCall(op, id, arg, Direct, Len(calls) + 1))
    /\ UNCHANGED <<page, clock, mockData, started, lastSettled, bookId, bookVars,
                   listVars>>

\* BookDetail's useEffect on [id]: the mount, or a change of the route's id
\* (undefined when the route has none).
Navigate(id) ==
    /\ page \in {"none", "BookDetail"}
    /\ id # bookId
    /\ page' = "BookDetail"
    /\ bookId' = id
    /\ IF Truthy(id)
       THEN /\ started < MaxBookLoads
            /\ LoadBookStart(id)
       ELSE /\ bookError' = JStr("No book ID provided")
            /\ bookLoading' = FALSE
            /\ UNCHANGED <<calls, started, book>>
    /\ UNCHANGED <<clock, mockData, lastSettled, listVars>>

\* ReadingLists' useEffect on []: the mount.
MountLists ==
    /\ page = "none"
    /\ page' = "ReadingLists"
    /\ LoadListsStart(calls, JUndef)
    /\ UNCHANGED <<clock, mockData, lastSettled, bookId, bookVars, lists, newListName,
                   editingList, notices>>

\* What the ReadingLists page renders: the spinner while isLoading, the
\* error screen while error is set, the lists and their buttons otherwise.
ShowsLists == page = "ReadingLists" /\ ~isLoading /\ ~Truthy(error)
ShowsError == page = "ReadingLists" /\ ~isLoading /\ Truthy(error)

\* The error screen's Try Again button: onClick={loadLists}.
RetryLoad ==
    /\ ShowsError
    /\ LoadListsStart(calls, JUndef)
    /\ UNCHANGED <<page, clock, mockData, lastSettled, bookId, bookVars, lists,
                   newListName, editingList, notices>>

\* onChange of the create dialog's name field.
TypeNewListName(name) ==
    /\ ShowsLists
    /\ name # newListName
    /\ newListName' = name
    /\ UNCHANGED <<page, calls, clock, mockData, started, lastSettled, bookId, bookVars,
                   lists, isLoading, error, editingList, notices>>

HandleCreateList ==
    /\ ShowsLists
    /\ IF CreateNameInvalid(newListName)
       THEN /\ notices' = notices \cup {Notice("alert", "Please enter a list name", 0)}
            /\ UNCHANGED <<calls, started>>
       ELSE /\ calls' = Append(calls,
                  NewCall("createReadingList", JUndef, NewList(newListName),
                          Owner("handleCreateList", lists, JUndef), started + 1))
            /\ started' = started + 1
            /\ UNCHANGED notices
    /\ UNCHANGED <<page, clock, mockData, lastSettled, bookId, bookVars, lists,
                   isLoading, error, newListName, editingList>>

\* The Edit button of the j-th list shown.
HandleEditList(j) ==
    /\ ShowsLists
    /\ LET listToEdit == FindById(lists.items, Get(lists.items[j], "id")) IN
       /\ Truthy(listToEdit)
       /\ editingList # listToEdit
       /\ editingList' = listToEdit
    /\ UNCHANGED <<page, calls, clock, mockData, started, lastSettled, bookId, bookVars,
                   lists, isLoading, error, newListName, notices>>

\* onChange of the edit dialog's name field.
TypeEditingName(name) ==
    /\ ShowsLists
    /\ Truthy(editingList)
    /\ Get(editingList, "name") # JStr(name)
    /\ editingList' = Spread(editingList, JObj("name" :> JStr(name)))
    /\ UNCHANGED <<page, calls, clock, mockData, started, lastSettled, bookId, bookVars,
                   lists, isLoading, error, newListName, notices>>

\* A handler that passes the list's userId on as it is.
UserIdOfNoDefault(list) == Get(list, "userId")

\* The userId || 'test-user-123' of handleUpdateList and handleDeleteList.
UserIdOf(list) ==
    IF Truthy(Get(list, "userId")) THEN Get(list, "userId")
    ELSE JStr("test-user-123")

HandleUpdateList ==
    /\ ShowsLists
    \* editingList.name.trim() throws when name is no string: the handler
    \* ends there
    /\ Truthy(editingList) => Get(editingList, "name").k = "str"
    /\ IF UpdateNameInvalid(editingList)
       THEN /\ notices' = notices \cup {Notice("alert", "Please enter a list name", 0)}
            /\ UNCHANGED <<calls, started>>
       ELSE /\ calls' = Append(calls,
                  NewCall("updateReadingList", Get(editingList, "id"),
                          JObj("name" :> Get(editingList, "name")
                               @@ "description" :> Get(editingList, "description")
                               @@ "bookIds" :> Get(editingList, "bookIds")
                               @@ "userId" :> UserIdOf(editingList)),
                          Owner("handleUpdateList", lists, JUndef), started + 1))
            /\ started' = started + 1
            /\ UNCHANGED notices
    /\ UNCHANGED <<page, clock, mockData, lastSettled, bookId, bookVars, lists,
                   isLoading, error, newListName, editingList>>

\* The Delete button of the j-th list shown, confirmed.
HandleDeleteList(j) ==
    /\ ShowsLists
    /\ LET listId == Get(lists.items[j], "id")
           listToDelete == FindById(lists.items, listId) IN
       IF ~Truthy(listToDelete)
       THEN /\ notices' = notices \cup {Notice("error", "List not found", 0)}
            /\ UNCHANGED <<calls, started>>
       ELSE /\ calls' = Append(calls,
                  NewCall("deleteReadingList", listId, UserIdOf(listToDelete),
                          Owner("handleDeleteList", lists, JUndef), started + 1))
            /\ started' = started + 1
            /\ UNCHANGED notices
    /\ UNCHANGED <<page, clock, mockData, lastSettled, bookId, bookVars, lists,
                   isLoading, error, newListName, editingList>>

----------------------------------------------------------------------------
(* Specifications. *)

\* Direct calls of the access layer, one at a time, against a backend that
\* may answer anything.
Next ==
    \/ \E op \in Ops : \E a \in Args(op) : Call(op, a[1], a[2])
    \/ \E i \in DOMAIN calls : \E resp \in Responses(calls[i].op) : Respond(i, resp)
    \/ \E i \in DOMAIN calls : FireTimer(i)
    \/ Tick

Spec == Init /\ [][Next]_vars

\* The same, with every request settling and every scheduled timer firing
\* in the end.
SpecFair ==
    /\ Spec
    /\ WF_vars(\E i \in DOMAIN calls : \E resp \in Responses(calls[i].op) :
                  Respond(i, resp))
    /\ WF_vars(\E i \in DOMAIN calls : FireTimer(i))

\* The mock path: every request fails; a session of reading-list calls.
MockPathNext ==
    \/ TripCall("createReadingList", JUndef, NewList("A"))
    \/ \E id \in Ids \cup CreatedIds : \E patch \in ListPatches :
          TripCall("updateReadingList", id, patch)
    \/ TripCall("getReadingLists", JUndef, JUndef)
    \/ \E i \in DOMAIN calls : \E resp \in FailResponses : Respond(i, resp)
    \/ \E i \in DOMAIN calls : FireTimer(i)
    \/ Tick

SpecMockPath == Init /\ [][MockPathNext]_vars

\* The BookDetail page.
BookNext ==
    \/ \E id \in Ids \cup {JUndef} : Navigate(id)
    \/ \E i \in DOMAIN calls : \E resp \in Responses(calls[i].op) : Respond(i, resp)

SpecBook == Init /\ [][BookNext]_vars

\* The ReadingLists page.
ListsNext ==
    \/ MountLists
    \/ started < MaxListCalls /\ RetryLoad
    \/ \E name \in TypedNames : TypeNewListName(name)
    \/ started + 2 <= MaxListCalls /\ HandleCreateList
    \/ \E j \in DOMAIN lists.items : HandleEditList(j)
    \/ \E name \in TypedNames : TypeEditingName(name)
    \/ started + 2 <= MaxListCalls /\ HandleUpdateList
    \/ started + 2 <= MaxListCalls
         /\ \E j \in DOMAIN lists.items : HandleDeleteList(j)
    \/ \E i \in DOMAIN calls : \E resp \in PageResponses(calls[i].op) : Respond(i, resp)
    \/ \E i \in DOMAIN calls : FireTimer(i)
    \/ Tick

SpecLists == Init /\ [][ListsNext]_vars

\* The ReadingLists page under a user who does not wait: a write may be
\* confirmed while an earlier one is in flight.
OverlapNext ==
    \/ MountLists
    \/ TypeNewListName("B")
    \/ started + 2 <= MaxOverlapCalls /\ HandleCreateList
    \/ \E j \in DOMAIN lists.items : HandleEditList(j)
    \/ started + 2 <= MaxOverlapCalls /\ HandleUpdateList
    \/ started + 2 <= MaxOverlapCalls
         /\ \E j \in DOMAIN lists.items : HandleDeleteList(j)
    \/ \E i \in DOMAIN calls : \E resp \in PageResponses(calls[i].op) : Respond(i, resp)
    \/ \E i \in DOMAIN calls : FireTimer(i)
    \/ Tick

SpecOverlap == Init /\ [][OverlapNext]_vars

\* Both pages: the router mounts one of them.
PagesNext ==
    \/ \E id \in Ids \cup {JUndef} : Navigate(id)
    \/ /\ page = "BookDetail"
       /\ \E i \in DOMAIN calls : \E resp \in Responses(calls[i].op) : Respond(i, resp)
    \/ MountLists
    \/ started < MaxListCalls /\ RetryLoad
    \/ \E name \in TypedNames : TypeNewListName(name)
    \/ started + 2 <= MaxListCalls /\ HandleCreateList
    \/ \E j \in DOMAIN lists.items : HandleEditList(j)
    \/ \E name \in TypedNames : TypeEditingName(name)
    \/ started + 2 <= MaxListCalls /\ HandleUpdateList
    \/ started + 2 <= MaxListCalls
         /\ \E j \in DOMAIN lists.items : HandleDeleteList(j)
    \/ /\ page = "ReadingLists"
       /\ \E i \in DOMAIN calls : \E resp \in PageResponses(calls[i].op) : Respond(i, resp)
    \/ \E i \in DOMAIN calls : FireTimer(i)
    \/ Tick

SpecPages == Init /\ [][PagesNext]_vars

\* The callers of updateReadingList: a direct caller, or the ReadingLists
\* page of a freshly started application, in its edit dialog.
UpdateNext ==
    \/ \E id \in Ids : \E patch \in ListPatches :
          Call("updateReadingList", id, patch)
    \/ page = "none" /\ \E i \in DOMAIN calls :
          \E resp \in Responses(calls[i].op) : Respond(i, resp)
    \/ calls = <<>> /\ MountLists
    \/ \E j \in DOMAIN lists.items : HandleEditList(j)
    \/ \E name \in TypedNames : TypeEditingName(name)
    \/ started + 2 <= MaxListCalls /\ HandleUpdateList
    \/ page = "ReadingLists" /\ \E i \in DOMAIN calls :
          \E resp \in PageResponses(calls[i].op) : Respond(i, resp)
    \/ \E i \in DOMAIN calls : FireTimer(i)
    \/ Tick

SpecUpdate == Init /\ [][UpdateNext]_vars

----------------------------------------------------------------------------
(* Properties. *)

\* The request of a call failed: fetch threw a network error, or the
\* response has a non-2xx status.
RequestFailed(resp) ==
    \/ resp.net = "error"
    \/ resp.net = "ok" /\ (resp.status < 200 \/ resp.status > 299)

\* The mock store's record with the given id, null when it has none.
MockRecord(store, id) ==
    IF \E j \in DOMAIN store : store[j].f["id"] = id
    THEN store[CHOOSE j \in DOMAIN store : store[j].f["id"] = id]
    ELSE JNull

\* What the mock store answers a list/get operation with.
MockAnswer(c) ==
    CASE c.op = "getBooks" -> JArr(mockBooks)
      [] c.op = "getReadingLists" -> JArr(mockReadingLists)
      [] OTHER -> MockRecord(mockBooks, c.id)

\* C1, as stated: whenever the response to getBooks, getBook or
\* getReadingLists has a non-2xx status (404 included), the call resolves
\* with the mock store's result: all mock books, all mock reading lists, the
\* mock book with that id (null only when the mock store has none).
C1_NonOkAnswersFromMock ==
    \A i \in DOMAIN calls :
        LET c == calls[i] IN
        ( /\ c.op \in {"getBooks", "getBook", "getReadingLists"}
          /\ c.resp.net = "ok" /\ ~ResponseOk(c.resp)
          /\ c.pc \in Final )
        => c.pc = "resolved" /\ c.value = MockAnswer(c)

\* C1, amended: the same for every non-2xx status, except that getBook
\* resolves with null on status 404, whatever the mock store holds.
C1_NonOkAnswersFromMockBut404 ==
    \A i \in DOMAIN calls :
        LET c == calls[i] IN
        ( /\ c.op \in {"getBooks", "getBook", "getReadingLists"}
          /\ c.resp.net = "ok" /\ ~ResponseOk(c.resp)
          /\ c.pc \in Final )
        => /\ c.pc = "resolved"
           /\ c.value = IF c.op = "getBook" /\ c.resp.status = 404
                        THEN JNull ELSE MockAnswer(c)

\* A getBook call answered with status 500 has resolved with the mock book.
C1_Witness ==
    \E i \in DOMAIN calls :
        /\ calls[i].op = "getBook"
        /\ calls[i].resp.status = 500
        /\ calls[i].pc = "resolved"
        /\ calls[i].value = mockBooks[1]

\* The call went to its fallback: its try block threw on the response.
FellBack(c) == c.resp.net # "none" /\ Try(c, c.resp).t = "throw"

\* C2, as stated: when updateReadingList or updateBook falls back to the
\* mock path because its request failed and the mock store holds no record
\* with the id, the promise rejects with a not-found error (which the
\* caller can catch).
C2_UpdateOfAbsentRejects ==
    \A i \in DOMAIN calls :
        LET c == calls[i] IN
        ( /\ c.op \in {"updateReadingList", "updateBook"}
          /\ RequestFailed(c.resp)
          /\ MockRecord(IF c.op = "updateBook" THEN mockBooks
                        ELSE mockReadingLists, c.id) = JNull
          /\ c.pc # "timer" )
        => c.pc = "rejected"

\* C3, as stated: deleting a reading list whose id is absent from both the
\* backend (the DELETE request fails) and the mock store signals a not-found
\* error to the caller of deleteReadingList, which the ReadingLists page
\* reports instead of a success message.
C3_DeleteOfAbsentReportsNotFound ==
    ( /\ lastSettled.owner.h = "handleDeleteList"
      /\ lastSettled.id.k = "str"
      /\ RequestFailed(lastSettled.resp)
      /\ MockRecord(mockReadingLists, lastSettled.id) = JNull )
    => /\ lastSettled.pc = "rejected"
       /\ Notice("success", "Reading list deleted successfully!",
                 lastSettled.n) \notin notices

\* C4, as stated: on the mock path, createReadingList giving record R, then
\* updateReadingList(R.id, patch), then a read of the reading lists yields a
\* record whose id is R.id and whose mutable fields equal those of the
\* patch.
C4_CreateUpdateGetRoundTrip ==
    \A i, j, k \in DOMAIN calls :
        ( /\ i < j /\ j < k
          /\ calls[i].op = "createReadingList" /\ calls[i].pc = "resolved"
          /\ calls[j].op = "updateReadingList"
          /\ calls[j].id = Get(calls[i].value, "id")
          /\ Truthy(Get(calls[j].arg, "userId"))
          /\ calls[j].pc \in Final
          /\ calls[k].op = "getReadingLists" /\ calls[k].pc = "resolved" )
        => /\ calls[j].pc = "resolved"
           /\ \E r \in DOMAIN calls[k].value.items :
                 /\ Get(calls[k].value.items[r], "id") = calls[j].id
                 /\ Get(calls[k].value.items[r], "name")
                      = Get(calls[j].arg, "name")

\* The functions that return a value.
ValueOps == ReadOps \cup {"createReadingList", "updateReadingList",
                         "createBook", "updateBook", "createReview"}

\* The 2xx response of call c is a wrapped envelope: an object whose body
\* field is a JSON string.
IsWrapped(c) ==
    /\ c.resp.net = "ok" /\ ResponseOk(c.resp) /\ IsJSON(c.resp.text)
    /\ LET result == JSONParse(c.resp.text) IN
       /\ result.k = "obj" /\ "body" \in DOMAIN result.f
       /\ result.f["body"].k = "str" /\ IsJSON(result.f["body"].s)

InnerPayload(c) == JSONParse(JSONParse(c.resp.text).f["body"].s)

\* C5, as stated: for every operation that returns a value, when the 2xx
\* response is a wrapped envelope, the value returned equals the JSON-parsed
\* body, with no further unwrapping or substitution.
C5_EnvelopeGivesParsedBody ==
    \A i \in DOMAIN calls :
        LET c == calls[i] IN
        (c.op \in ValueOps /\ IsWrapped(c) /\ c.pc \in Final)
        => c.pc = "resolved" /\ c.value = InnerPayload(c)

\* The property of the parsed body that the create and update functions
\* return in its place when it is truthy.
InnerKey(op) ==
    CASE op \in {"createReadingList", "updateReadingList"} -> "list"
      [] op \in {"createBook", "updateBook"} -> "book"
      [] OTHER -> "none"

\* C5, amended: the value returned is the JSON-parsed body, except that
\* createReadingList and updateReadingList return its list property, and
\* createBook and updateBook its book property, when that property is
\* truthy; and except that a body that parses to null is returned (as null)
\* only by getBook, getReviews and createReview, the other functions taking
\* their mock fallback instead.
C5_EnvelopeGivesParsedBodyOrItsResource ==
    \A i \in DOMAIN calls :
        LET c == calls[i] IN
        (c.op \in ValueOps /\ IsWrapped(c) /\ c.pc \in Final)
        => LET parsed == InnerPayload(c) IN
           IF parsed = JNull /\ c.op \notin {"getBook", "getReviews", "createReview"}
           THEN c.via = "mock" \/ c.pc = "hung"
           ELSE /\ c.pc = "resolved" /\ c.via = "backend"
                /\ c.value = IF Truthy(Get(parsed, InnerKey(c.op)))
                             THEN Get(parsed, InnerKey(c.op)) ELSE parsed

\* A createReadingList answered with an envelope around {list: L} has
\* resolved, and one answered with an envelope around L has resolved with
\* the parsed body.
C5_Witness ==
    \E i \in DOMAIN calls :
        /\ calls[i].op = "createReadingList"
        /\ IsWrapped(calls[i])
        /\ calls[i].pc = "resolved"
        /\ calls[i].value = InnerPayload(calls[i])
        /\ Get(calls[i].value, "id") = JStr("7")

\* The store a function's fallback looks its id up in.
StoreOf(op) ==
    IF op \in {"getBook", "updateBook", "deleteBook", "getReviews"}
    THEN mockBooks ELSE mockReadingLists

\* The call's request failed (it gave no usable response, so the fallback
\* ran) and the mock store has no record with the requested id.
FallbackMiss(c) ==
    /\ FellBack(c)
    /\ c.id # JUndef
    /\ MockRecord(StoreOf(c.op), c.id) = JNull

NoUserId(c) == c.op = "updateReadingList" /\ ~Truthy(Get(c.arg, "userId"))

BlankNames == {"", " "}

\* C7: invoking the create handler, or the update handler, with a list name
\* that is empty or only whitespace issues no network request and leaves
\* the lists state unchanged.
C7_BlankNameIssuesNoRequest ==
    [][ ( \/ newListName \in BlankNames /\ HandleCreateList
          \/ /\ Truthy(editingList)
             /\ Get(editingList, "name") \in {JStr(b) : b \in BlankNames}
             /\ HandleUpdateList )
        => (calls' = calls /\ started' = started /\ lists' = lists) ]_vars

\* A handler has refused a name, and the page's only request so far is the
\* load of its mount.
C7_Witness ==
    /\ Notice("alert", "Please enter a list name", 0) \in notices
    /\ newListName = " "
    /\ started = 1

\* The parsed body has none of the accepted shapes: it is no array, and no
\* object with a body (envelope), an id (bare record) or a success field.
Unrecognized(result) ==
    /\ result.k # "arr"
    /\ result.k = "obj" => DOMAIN result.f \cap {"body", "id", "success"} = {}

\* What the mock fallback of a read operation answers.
MockReadAnswer(c) ==
    IF c.op = "getReviews" THEN GetReviewsFallback(c.id) ELSE MockAnswer(c)

\* C8, as stated: for the read operations, a 2xx response whose parsed body
\* matches none of the accepted shapes is treated as empty or as a failure:
\* the call resolves with an empty list, null, or the mock fallback, never
\* with the unrecognized payload as data.
C8_UnrecognizedIsEmptyOrFailure ==
    \A i \in DOMAIN calls :
        LET c == calls[i] IN
        ( /\ c.op \in ReadOps
          /\ c.resp.net = "ok" /\ ResponseOk(c.resp) /\ IsJSON(c.resp.text)
          /\ Unrecognized(JSONParse(c.resp.text))
          /\ c.pc \in Final )
        => /\ c.pc = "resolved"
           /\ c.value \in {JArr(<<>>), JNull, MockReadAnswer(c)}

\* The <resource> of the {success, <resource>} wrapper of each function.
ResourceKey(op) ==
    CASE op = "getBooks" -> "books"
      [] op \in {"getBook", "createBook", "updateBook"} -> "book"
      [] op = "getReadingLists" -> "lists"
      [] op \in {"createReadingList", "updateReadingList"} -> "list"
      [] op = "getReviews" -> "reviews"
      [] OTHER -> "review"

\* C9, as stated: every operation that returns an entity or a list, given a
\* 2xx response of the form {success: true, <resource>: X}, returns X (not
\* the wrapper, and not mock data).
C9_SuccessWrapperGivesResource ==
    \A i \in DOMAIN calls :
        LET c == calls[i] IN
        ( /\ c.op \in ValueOps
          /\ c.resp.net = "ok" /\ ResponseOk(c.resp) /\ IsJSON(c.resp.text)
          /\ JSONParse(c.resp.text).k = "obj"
          /\ DOMAIN JSONParse(c.resp.text).f = {"success", ResourceKey(c.op)}
          /\ JSONParse(c.resp.text).f["success"] = JBool(TRUE)
          /\ c.pc \in Final )
        => /\ c.pc = "resolved"
           /\ c.value = JSONParse(c.resp.text).f[ResourceKey(c.op)]

\* C10, as stated: mock data is returned by the access layer, or displayed
\* by a page, only after the corresponding request threw a network error or
\* returned a non-2xx status, never after a 2xx response.
C10_MockOnlyAfterFailure ==
    /\ \A c \in {calls[i] : i \in DOMAIN calls} \cup {lastSettled} :
          (c.reqs > 0 /\ c.pc = "resolved" /\ c.via = "mock")
          => RequestFailed(c.resp)
    /\ ( /\ lastSettled.owner.h = "loadBook"
         /\ lastSettled.pc = "resolved"
         /\ ~Truthy(lastSettled.value)
         /\ MockRecord(mockBooks, lastSettled.id) # JNull
         /\ book = MockRecord(mockBooks, lastSettled.id) )
       => RequestFailed(lastSettled.resp)

UpdateOps == {"updateReadingList", "updateBook"}

\* C12, as stated: whenever updateReadingList(id, patch) or updateBook(id,
\* patch) resolves, on the backend path or the fallback path, the returned
\* record's id equals the id argument, even when patch carries another id.
C12_UpdateKeepsId ==
    \A i \in DOMAIN calls :
        ( /\ calls[i].op \in UpdateOps /\ calls[i].pc = "resolved"
          /\ Truthy(Get(calls[i].value, "id")) )
        => Get(calls[i].value, "id") = calls[i].id

\* C12, amended: on the fallback path the returned record's id equals the id
\* argument, even when patch carries another id; on the backend path the
\* returned record is the one the response carries, whose id is the
\* backend's.
C12_FallbackUpdateKeepsId ==
    \A i \in DOMAIN calls :
        LET c == calls[i] IN
        (c.op \in UpdateOps /\ c.pc = "resolved")
        => /\ c.via = "mock" => Get(c.value, "id") = c.id
           /\ (c.via = "backend" /\ ~IsWrapped(c)
                /\ Truthy(Get(JSONParse(c.resp.text), "id")))
              => c.value = JSONParse(c.resp.text)

\* A fallback update of list "1" with a patch whose id is "5" has resolved
\* with a record whose id is "1".
C12_Witness ==
    \E i \in DOMAIN calls :
        /\ calls[i].op = "updateReadingList"
        /\ calls[i].pc = "resolved" /\ calls[i].via = "mock"
        /\ Get(calls[i].arg, "id") = JStr("5")
        /\ Get(calls[i].value, "id") = JStr("1")
        /\ Get(calls[i].value, "name") = Get(calls[i].arg, "name")

\* C13, as stated: any two records synthesized by fallback creates in one
\* session have distinct ids, given a clock that never decreases, including
\* when the two creates complete at the same clock value.
C13_FallbackCreatedIdsDistinct ==
    \A i, j \in DOMAIN calls :
        ( /\ i < j
          /\ calls[i].op = "createReadingList" /\ calls[j].op = "createReadingList"
          /\ calls[i].pc = "resolved" /\ calls[i].via = "mock"
          /\ calls[j].pc = "resolved" /\ calls[j].via = "mock" )
        => Get(calls[i].value, "id") # Get(calls[j].value, "id")

WriteHandlers == {"handleCreateList", "handleUpdateList", "handleDeleteList"}

\* The user opens a book: the route gets an id.
OpensBook == \E id \in Ids : Navigate(id)

\* The user confirms a create, an update or a delete that passes the
\* handler's validation.
ConfirmsWrite ==
    /\ HandleCreateList \/ HandleUpdateList
         \/ \E j \in DOMAIN lists.items : HandleDeleteList(j)
    /\ notices' = notices

\* The handler h resumes after its await: the call it awaited has settled.
Resumes(hs) == lastSettled' # lastSettled /\ lastSettled'.owner.h \in hs

\* C14, as stated: each user action on a page (confirming create, update or
\* delete of a reading list; opening a book) triggers exactly one
\* asynchronous network request: the one its handler starts with, and none
\* when the handler resumes.
C14_OneRequestPerAction ==
    [][ /\ (OpensBook \/ ConfirmsWrite) => started' = started + 1
        /\ Resumes(WriteHandlers \cup {"loadBook"}) => started' = started ]_vars

\* C14, amended: opening a book triggers exactly one request; confirming
\* create, update or delete of a reading list triggers one write request at
\* once and, when that call resolves, exactly one more request, the reload
\* of the lists; when the call rejects, no further request.
C14_OneRequestThenOneReload ==
    [][ /\ (OpensBook \/ ConfirmsWrite)
           => /\ started' = started + 1
              /\ calls' = Append(calls, calls'[Len(calls')])
              /\ calls'[Len(calls')].reqs = 1
        /\ Resumes({"loadBook", "loadLists"}) => started' = started
        /\ Resumes(WriteHandlers)
           => IF lastSettled'.pc = "resolved"
              THEN /\ started' = started + 1
                   /\ Len(calls') = Len(calls)
                   /\ calls'[Len(calls')].op = "getReadingLists"
                   /\ calls'[Len(calls')].owner.by = lastSettled'
                   /\ calls'[Len(calls')].reqs = 1
              ELSE started' = started ]_vars

\* A create has resolved and its handler has started the reload: the page
\* has made three calls, the load of its mount, the create and the reload.
C14_Witness ==
    /\ lastSettled.owner.h = "handleCreateList"
    /\ lastSettled.pc = "resolved"
    /\ started = 3
    /\ \E i \in DOMAIN calls :
          calls[i].op = "getReadingLists" /\ calls[i].owner.by = lastSettled

TableMethod(op) ==
    CASE op \in ReadOps -> "GET"
      [] op \in {"createReadingList", "createBook", "createReview"} -> "POST"
      [] op \in {"updateReadingList", "updateBook"} -> "PUT"
      [] OTHER -> "DELETE"

TablePath(op, id, userId) ==
    CASE op \in {"getBooks", "createBook"} -> "/books"
      [] op \in {"getBook", "updateBook", "deleteBook"} -> "/books/" \o id
      [] op \in {"getReadingLists", "createReadingList"} -> "/reading-lists"
      [] op = "updateReadingList" -> "/reading-lists/" \o id
      [] op = "deleteReadingList" ->
           "/reading-lists/" \o id \o "?userId=" \o userId
      [] op = "getReviews" -> "/books/" \o id \o "/reviews"
      [] OTHER -> "/reviews"

AllHaveIds(v) == \A j \in DOMAIN v.items : Truthy(Get(v.items[j], "id"))

\* C18, as stated: when two write handlers overlap, the lists state ends as
\* the result of the reload issued by the write that completed last: the
\* response of an earlier-issued reload never overwrites that of a
\* later-issued one.  (Stated for lists of proper records: the writes were
\* confirmed on such lists and both reloads were answered with such lists.)
C18_EarlierReloadNeverOverwrites ==
    [][ ( /\ lastSettled.owner.h = "loadLists"
          /\ lastSettled.owner.by # JUndef
          /\ lastSettled'.owner.h = "loadLists"
          /\ lastSettled'.owner.by # JUndef
          /\ lastSettled'.n < lastSettled.n
          /\ AllHaveIds(lastSettled.owner.by.owner.cap)
          /\ AllHaveIds(lastSettled'.owner.by.owner.cap)
          /\ AllHaveIds(lists) /\ AllHaveIds(lists') )
        => lists' = lists ]_vars

\* C19: on the mock path, updateReadingList(id, patch) for an id present in
\* the mock store resolves with the mock record overlaid by patch: every
\* field of patch takes the patch's value, every other field (createdAt
\* included) keeps the mock record's, except that id is the id argument and
\* updatedAt the current time, even when patch supplies its own.
C19_FallbackUpdateOverlaysPatch ==
    \A i \in DOMAIN calls :
        LET c == calls[i]
            rec == MockRecord(mockReadingLists, c.id) IN
        (c.op = "updateReadingList" /\ c.pc = "resolved" /\ c.via = "mock")
        => /\ rec # JNull
           /\ DOMAIN c.value.f
                = DOMAIN rec.f \cup DOMAIN c.arg.f \cup {"id", "updatedAt"}
           /\ \A key \in DOMAIN c.value.f :
                c.value.f[key] =
                    IF key = "id" THEN c.id
                    ELSE IF key = "updatedAt" THEN JStr(ToISOString(clock))
                    ELSE IF key \in DOMAIN c.arg.f THEN c.arg.f[key]
                    ELSE rec.f[key]

\* A fallback update of list "1" with a patch that carries its own id and
\* updatedAt has resolved, after the clock has moved.
C19_Witness ==
    \E i \in DOMAIN calls :
        /\ calls[i].op = "updateReadingList"
        /\ calls[i].pc = "resolved" /\ calls[i].via = "mock"
        /\ "updatedAt" \in DOMAIN calls[i].arg.f
        /\ clock > 0
        /\ Get(calls[i].value, "name") = JStr("C")
        /\ Get(calls[i].value, "createdAt") = JStr("2024-01-01T00:00:00Z")
        /\ Get(calls[i].value, "updatedAt") # Get(calls[i].arg, "updatedAt")

\* C20, as stated: every access-layer call eventually settles (resolves or
\* rejects) provided its network request settles and scheduled timers fire;
\* no combination of response and arguments leaves the caller's await
\* pending for ever.
C20_EveryCallSettles ==
    (calls # <<>> /\ calls[1].pc \in {"fetch", "timer"})
        ~> (calls # <<>> /\ calls[1].pc \in Settled)

\* A getReadingLists request that loadLists has started is in flight.
LoadInFlight ==
    \E i \in DOMAIN calls :
        /\ calls[i].op = "getReadingLists"
        /\ calls[i].owner.h = "loadLists"
        /\ calls[i].pc = "fetch"
        \* a reload follows a write confirmed on a list of proper records
        /\ calls[i].owner.by # JUndef => AllHaveIds(calls[i].owner.by.owner.cap)

\* C21, as stated: in the ReadingLists page, isLoading is true in every state
\* where a getReadingLists request started by loadLists is still in flight,
\* including when several loads overlap; isLoading becomes false only when
\* no load remains in flight.
C21_LoadingWhileLoadInFlight ==
    (page = "ReadingLists" /\ LoadInFlight) => isLoading

\* What BookDetail renders once it is not loading: the error if there is
\* one, else the book (BookDetail.tsx:86-160).
Displayed == IF Truthy(bookError) THEN bookError ELSE book

\* This step settles the second of two loads, for route ids A and B, each
\* answered 404 by the backend; the load for B, the later started and the
\* one for the id now in the route, settled first, so that the response
\* that arrives now is the late one for A.
LateResponseForA ==
    /\ page = "BookDetail"
    /\ Len(calls) = 1
    /\ calls' = <<>>
    /\ lastSettled.owner.h = "loadBook"
    /\ lastSettled'.owner.h = "loadBook"
    /\ lastSettled.n = started
    /\ lastSettled.id = bookId
    /\ lastSettled'.id # bookId
    /\ lastSettled.resp.status = 404
    /\ lastSettled'.resp.status = 404

\* C22, as stated: in the BookDetail page, when the route id changed from A
\* to B while the request for A was in flight and both requests have
\* settled, what is displayed (the book, or the error) is the one for B: a
\* late response for A does not replace what the load for B left on display.
C22_LateResponseIgnored ==
    [][LateResponseForA => Displayed' = Displayed]_vars

\* The lists ls show the write that call w made: the created list is among
\* them, the updated list has the new name, the deleted list is not there.
Reflects(ls, w) ==
    CASE w.owner.h = "handleCreateList" ->
           \E k \in DOMAIN ls.items : ls.items[k] = w.value
      [] w.owner.h = "handleUpdateList" ->
           /\ Truthy(FindById(ls.items, w.id))
           /\ Get(FindById(ls.items, w.id), "name") = Get(w.arg, "name")
      [] OTHER ->
           ~Truthy(FindById(ls.items, w.id))

\* This step settles the reload that followed a write which reported
\* success, both served by the mock fallback.
ReloadAfterWriteSettles ==
    /\ page = "ReadingLists"
    /\ lastSettled' # lastSettled
    /\ lastSettled'.owner.h = "loadLists"
    /\ lastSettled'.owner.by # JUndef
    /\ lastSettled'.pc = "resolved"
    /\ lastSettled'.via = "mock"
    /\ lastSettled'.owner.by.via = "mock"
    /\ lastSettled'.owner.by.id.k \in {"undef", "str"}

\* C23, as stated: in the ReadingLists page, once a create, update or delete
\* handler has reported success and its follow-up reload has settled, the
\* lists state reflects that write, also when the mock fallback served the
\* write and the reload.
C23_ReloadKeepsWrite ==
    [][ReloadAfterWriteSettles => Reflects(lists', lastSettled'.owner.by)]_vars

\* The 'not found' error of loadBook, for some id.
NotFoundErrors ==
    {JStr("Book with ID \"" \o TemplateString(id) \o "\" not found") : id \in Ids}

\* This step settles the load for the id now in the route, and leaves no
\* load in flight.
RouteLoadSettles ==
    /\ page = "BookDetail"
    /\ lastSettled' # lastSettled
    /\ lastSettled'.owner.h = "loadBook"
    /\ lastSettled'.id = bookId
    /\ calls' = <<>>

\* C24, as stated: in the BookDetail page, once the load for the route id
\* settles, the page shows a 'not found' error if and only if getBook gave
\* no book and the mock store has no book with that id; when getBook gave
\* null and the mock store has the id, the mock book is displayed.
C24_NotFoundIffNowhere ==
    [][RouteLoadSettles =>
          LET given == Truthy(lastSettled'.value)
              mock == FindById(mockData.mockBooks, bookId)
          IN  /\ Displayed' \in NotFoundErrors <=> (~given /\ ~Truthy(mock))
              /\ (~given /\ Truthy(mock)) => Displayed' = mock]_vars

\* This step settles a load of the ReadingLists page, its getReadingLists
\* having resolved.
LoadResolves ==
    /\ page = "ReadingLists"
    /\ lastSettled' # lastSettled
    /\ lastSettled'.owner.h = "loadLists"
    /\ lastSettled'.pc = "resolved"

\* The response of call c is an envelope whose inner payload is an object
\* or null.
InnerObjectOrNull(c) ==
    IsWrapped(c) /\ InnerPayload(c).k \in {"obj", "null"}

\* loadLists has put the empty array and an error in place of the value.
ValueRefused == lists = JArr(<<>>) /\ error # JNull

UpdateCalls ==
    {calls[i] : i \in {j \in DOMAIN calls : calls[j].op = "updateReadingList"}}
    \cup (IF lastSettled.op = "updateReadingList" THEN {lastSettled} ELSE {})

\* The rejection of updateReadingList's validation.
RejectedForUserId(c) ==
    /\ c.pc = "rejected"
    /\ c.value = JStr("userId is required to update reading list")

\* C26, as stated: every updateReadingList call of the ReadingLists page
\* carries a non-empty userId and never meets the 'userId is required'
\* rejection; a direct updateReadingList call whose patch has no userId is
\* rejected with no request issued and without the mock fallback.
C26_PageUpdatesCarryUserId ==
    \A c \in UpdateCalls :
        /\ c.owner.h = "handleUpdateList" =>
              /\ Truthy(Get(c.arg, "userId"))
              /\ Get(c.arg, "userId") # JStr("")
              /\ ~RejectedForUserId(c)
              /\ c.reqs = 1
        /\ (c.owner.h = "direct" /\ ~Truthy(Get(c.arg, "userId"))) =>
              /\ RejectedForUserId(c)
              /\ c.reqs = 0
              /\ c.req = NoRequest
              /\ c.resp = NoResponse
              /\ c.via = "none"

\* The page has sent the update of a list that came without a userId, with
\* the default userId in the patch.
C26_Witness ==
    /\ page = "ReadingLists"
    /\ Truthy(editingList)
    /\ ~Truthy(Get(editingList, "userId"))
    /\ \E i \in DOMAIN calls :
          /\ calls[i].op = "updateReadingList"
          /\ calls[i].owner.h = "handleUpdateList"
          /\ calls[i].pc = "fetch"
          /\ Get(calls[i].arg, "userId") = JStr("test-user-123")
          /\ calls[i].req.method = "PUT"

====
